---- MODULE Spec2Model ----
(***************************************************************************)
(* A model of confconsole's ifutil.py: the interface controller            *)
(* (unconfigure_if, set_static, set_dhcp), the Netconf queries (_get_addr, *)
(* get_gateway, get_nameserver), the /proc/net connection-table parser     *)
(* (Connection, get_connections) and get_ifnames.                          *)
(*                                                                         *)
(* Python strings are sequences of one-token strings, so that prefix,      *)
(* split, strip and containment are computed, not assumed.  A Python value *)
(* is a record [kind, val]: kind "None", "str" (val the text), or "raise"  *)
(* (val the exception's class name) for a call that ends by raising.       *)
(***************************************************************************)
EXTENDS Integers, Sequences, FiniteSets, TLC

VARIABLES
    \* interface controller
    store,      \* config store: ifname -> method written by conffiles.Interfaces
    link,       \* ifname -> "up" | "down", as left by ifup / ifdown
    calls,      \* external calls made by the last controller operation, in order
    ret,        \* value the last controller operation returned
    lastop,     \* [name, ifname] of the last controller operation
    output,     \* text captured from ifup by the last set_dhcp
    netaddr,    \* value of net.addr read by the last set_dhcp
    \* Netconf queries
    conf,       \* conffiles.Interfaces().conf: ifname -> lines, or no entry
    rundir,     \* /etc/resolvconf/run/interface: missing, or its files
    resolv,     \* /etc/resolv.conf: missing, or its lines
    route,      \* "route -n": failing, or its output lines
    qname,      \* ifname of the last query
    qres,       \* value (or raise) of the last query
    nopen,      \* sockets currently open
    nmade,      \* sockets created so far
    frame,      \* the _get_addr call in progress, if any
    \* /proc/net tables
    proc,       \* the text of the /proc/net files read by the last enumeration
    pres        \* result of the last enumeration

vars == <<store, link, calls, ret, lastop, output, netaddr,
          conf, rundir, resolv, route, qname, qres, nopen, nmade, frame, proc, pres>>

ctlvars == <<store, link, calls, ret, lastop, output, netaddr>>
qryvars == <<conf, rundir, resolv, route, qname, qres, nopen, nmade, frame>>
procvars == <<proc, pres>>

-----------------------------------------------------------------------------
(* Bounds *)

MaxMsgLen == 1      \* longest exception message / command output
MaxLines == 2       \* most lines in a modelled file or table
MaxCalls == 3       \* most address queries in one run
MaxDevLines == 3    \* most lines of /proc/net/dev

-----------------------------------------------------------------------------
(* Python values and strings *)

PyNone == [kind |-> "None", val |-> <<>>]
PyStr(s) == [kind |-> "str", val |-> s]
PyRaise(cls) == [kind |-> "raise", val |-> <<cls>>]

\* bool(v) for None and str: None and '' are false.
Truthy(v) == v.kind = "str" /\ v.val # <<>>

StrUpTo(alphabet, n) == UNION {[1..k -> alphabet] : k \in 0..n}

startswith(s, p) == Len(s) >= Len(p) /\ SubSeq(s, 1, Len(p)) = p
endswith(s, p) == Len(s) >= Len(p) /\ SubSeq(s, Len(s) - Len(p) + 1, Len(s)) = p
Contains(s, p) == \E i \in 0..(Len(s) - Len(p)) : SubSeq(s, i + 1, i + Len(p)) = p

Ifnames == {"eth0", "eth1"}
MsgChars == {"x"}
Texts == StrUpTo(MsgChars, MaxMsgLen)

-----------------------------------------------------------------------------
(* Interface controller: src/ifutil.py 152-189 *)

\* What an external call (executil, conffiles) does when run: it returns,
\* with captured output, or raises an exception carrying a message, which
\* may be empty (str(Exception()) is '').
Outcomes == [ok : {TRUE}, text : Texts] \cup [ok : {FALSE}, text : Texts]

Call(act, ifname, o) == [act |-> act, ifname |-> ifname, ok |-> o.ok]

\* str(e) of the caught exception.
StrOfExc(o) == PyStr(o.text)

\* The message without the captured output.
DhcpErrorBare(out) == <<"Error obtaining IP address">>

\* Error('Error obtaining IP address\n\n%s' % output)
DhcpError(out) == <<"Error obtaining IP address", "\n", "\n">> \o out

Addrs == {<<"10", ".", "0", ".", "0", ".", "2">>}
NoArgs == <<>>

World == [store |-> store, link |-> link, calls |-> <<>>, ret |-> PyNone,
          output |-> <<>>, netaddr |-> PyNone]

\* One external call of a controller operation, as it changes the world when
\* it returns; a call that raises leaves only its trace in calls.
\*   ifdown / ifup:      executil.getoutput("ifdown" / "ifup", ifname)
\*   Interfaces:         conffiles.Interfaces(), which reads the config file
\*   set_manual / set_static / set_dhcp: the config-store mutation
\*   ifconfig:           executil.system("ifconfig %s 0.0.0.0" % ifname)
Apply(act, ifname, args, o, w) ==
    LET logged == [w EXCEPT !.calls = Append(@, Call(act, ifname, o))] IN
    IF ~o.ok THEN logged
    ELSE CASE act = "ifdown" -> [logged EXCEPT !.link[ifname] = "down"]
           [] act = "ifup" -> [logged EXCEPT !.link[ifname] = "up", !.output = o.text]
           [] act = "set_manual" ->
                [logged EXCEPT !.store[ifname] = [method |-> "manual", args |-> NoArgs]]
           [] act = "set_static" ->
                [logged EXCEPT !.store[ifname] = [method |-> "static", args |-> args]]
           [] act = "set_dhcp" ->
                [logged EXCEPT !.store[ifname] = [method |-> "dhcp", args |-> NoArgs]]
           [] OTHER -> logged

\* A block that passes over a failing call and goes on with the next one,
\* returning the last failure's message.
RECURSIVE TryBlockGoesOn(_, _, _, _, _)
TryBlockGoesOn(steps, i, ifname, args, w) ==
    IF i > Len(steps) THEN {w}
    ELSE UNION { TryBlockGoesOn(steps, i + 1, ifname, args,
                     IF o.ok THEN Apply(steps[i], ifname, args, o, w)
                     ELSE [Apply(steps[i], ifname, args, o, w) EXCEPT !.ret = StrOfExc(o)])
               : o \in Outcomes }

\* try: <steps[i..]> except Exception, e: return str(e)
\* The set of worlds the block can end in: each call's outcome is drawn when
\* the call is made; the first call that raises ends the block with str(e).
RECURSIVE TryBlock(_, _, _, _, _)
TryBlock(steps, i, ifname, args, w) ==
    IF i > Len(steps) THEN {w}
    ELSE UNION { IF o.ok
                 THEN TryBlock(steps, i + 1, ifname, args, Apply(steps[i], ifname, args, o, w))
                 ELSE {[Apply(steps[i], ifname, args, o, w) EXCEPT !.ret = StrOfExc(o)]}
               : o \in Outcomes }

Completed(steps, w) == Len(w.calls) = Len(steps) /\ w.calls[Len(steps)].ok

Returns(name, ifname, w) ==
    /\ store' = w.store
    /\ link' = w.link
    /\ calls' = w.calls
    /\ ret' = w.ret
    /\ output' = w.output
    /\ netaddr' = w.netaddr
    /\ lastop' = [name |-> name, ifname |-> ifname]
    /\ UNCHANGED <<qryvars, procvars>>

unconfigure_steps == <<"ifdown", "Interfaces", "set_manual", "ifconfig", "ifup">>
set_static_steps == <<"ifdown", "Interfaces", "set_static", "ifup">>
set_dhcp_steps == <<"ifdown", "Interfaces", "set_dhcp", "ifup">>

unconfigure_if(ifname) ==
    \E w \in TryBlock(unconfigure_steps, 1, ifname, NoArgs, World) :
        Returns("unconfigure_if", ifname, [w EXCEPT !.output = <<>>])

\* addr stands for the arguments addr, netmask, gateway, nameserver, which
\* are all handed to the config store unchanged.
set_static(ifname, addr) ==
    \E w \in TryBlock(set_static_steps, 1, ifname, addr, World) :
        Returns("set_static", ifname, [w EXCEPT !.output = <<>>])

\* net.addr after ifup: None (ioctl IOError) or the dotted quad.
AddrValues == {PyNone} \cup {PyStr(a) : a \in Addrs}

\* net = Netconf(ifname); if not net.addr: raise Error(...), caught by the
\* same except clause.  The query is logged as the call "addr"; its socket
\* is opened and released within this step (see get_addr_call/_return), so
\* only its result a is drawn here.
set_dhcp_verify(ifname, w, a) ==
    LET queried == [w EXCEPT !.netaddr = a,
                             !.calls = Append(@, [act |-> "addr", ifname |-> ifname,
                                                  ok |-> Truthy(a)])]
    IN IF ~Truthy(a)
       THEN [queried EXCEPT !.ret = PyStr(DhcpError(w.output))]
       ELSE queried

set_dhcp(ifname) ==
    \E w \in TryBlock(set_dhcp_steps, 1, ifname, NoArgs, World) :
        IF Completed(set_dhcp_steps, w)
        THEN \E a \in AddrValues : Returns("set_dhcp", ifname, set_dhcp_verify(ifname, w, a))
        ELSE Returns("set_dhcp", ifname, w)

InitStore == [i \in Ifnames |-> [method |-> "manual", args |-> NoArgs]]

InitCtl ==
    /\ store = InitStore
    /\ link = [i \in Ifnames |-> "down"]
    /\ calls = <<>>
    /\ ret = PyNone
    /\ lastop = [name |-> "none", ifname |-> "eth0"]
    /\ output = <<>>
    /\ netaddr = PyNone

-----------------------------------------------------------------------------
(* str methods, on token sequences *)

IsSpace(t) == t = " "

\* The k-th smallest member of a set of numbers.
Kth(S, k) == CHOOSE x \in S : Cardinality({y \in S : y < x}) = k - 1

\* s.strip()
strip(s) ==
    LET inked == {i \in 1..Len(s) : ~IsSpace(s[i])}
    IN IF inked = {} THEN <<>>
       ELSE SubSeq(s, Kth(inked, 1), Kth(inked, Cardinality(inked)))

\* s.split(): the maximal runs of non-space tokens.
split(s) ==
    LET n == Len(s)
        starts == {i \in 1..n : ~IsSpace(s[i]) /\ (i = 1 \/ IsSpace(s[i - 1]))}
        ends == {i \in 1..n : ~IsSpace(s[i]) /\ (i = n \/ IsSpace(s[i + 1]))}
    IN [k \in 1..Cardinality(starts) |-> SubSeq(s, Kth(starts, k), Kth(ends, k))]

\* s.split(sep, maxsplit) for a one-token sep; maxsplit < 0 is "no limit".
splitOn(s, sep, maxsplit) ==
    LET n == Len(s)
        seps == {i \in 1..n : s[i] = sep}
        used == IF maxsplit < 0 THEN seps
                ELSE {i \in seps : Cardinality({j \in seps : j < i}) < maxsplit}
        m == Cardinality(used)
        from(k) == IF k = 1 THEN 1 ELSE Kth(used, k - 1) + 1
        upto(k) == IF k = m + 1 THEN n ELSE Kth(used, k) - 1
    IN [k \in 1..(m + 1) |-> SubSeq(s, from(k), upto(k))]

Min(S) == CHOOSE x \in S : \A y \in S : x <= y
Max(S) == CHOOSE x \in S : \A y \in S : x >= y

\* str(n) for n >= 0
DigitChars == <<"0", "1", "2", "3", "4", "5", "6", "7", "8", "9">>

RECURSIVE str(_)
str(n) == IF n < 10 THEN <<DigitChars[n + 1]>>
          ELSE Append(str(n \div 10), DigitChars[(n % 10) + 1])

\* sep.join(parts)
RECURSIVE join(_, _)
join(sep, parts) ==
    IF parts = <<>> THEN <<>>
    ELSE IF Len(parts) = 1 THEN parts[1]
    ELSE parts[1] \o <<sep>> \o join(sep, Tail(parts))

-----------------------------------------------------------------------------
(* Netconf: src/ifutil.py 20-96 *)

Eth0 == <<"eth", "0">>
Eth1 == <<"eth", "1">>
Eth10 == <<"eth", "1", "0">>
QNames == {Eth0, Eth1, Eth10}

\* socket.inet_ntoa(result[20:24]); octets is the 4-byte slice.
inet_ntoa(octets) == join(".", [k \in 1..4 |-> str(octets[k])])

\* What fcntl.ioctl does: raise IOError, or return a structure whose bytes
\* 20..23 are the address.
IoctlOutcomes == {[ok |-> FALSE, bytes |-> <<0, 0, 0, 0>>],
                  [ok |-> TRUE, bytes |-> <<192, 168, 1, 5>>],
                  [ok |-> TRUE, bytes |-> <<255, 255, 255, 0>>]}

ATTRIBS == {"addr", "netmask", "brdaddr"}

NoFrame == [active |-> FALSE, result |-> PyNone]

\* A frame whose socket outlives it (a reference kept elsewhere).
FrameExitKeeps(open) == open

\* Leaving _get_addr destroys its frame: sockfd was the only reference to
\* the socket object, whose deallocation closes the descriptor.
FrameExit(open) == open - 1

\* _get_addr up to and including the ioctl (lines 35-39): the socket is
\* created and held by the local sockfd; IOError is caught.
get_addr_call(ifname, attrname) ==
    /\ ~frame.active
    /\ nmade < MaxCalls
    /\ \E o \in IoctlOutcomes :
         frame' = [active |-> TRUE,
                   result |-> IF o.ok THEN PyStr(inet_ntoa(o.bytes)) ELSE PyNone]
    /\ nopen' = nopen + 1
    /\ nmade' = nmade + 1
    /\ qname' = ifname
    /\ qres' = [kind |-> "pending", val |-> <<attrname>>]
    /\ UNCHANGED <<conf, rundir, resolv, route, ctlvars, procvars>>

\* _get_addr returning (line 39 or 41).
get_addr_return ==
    /\ frame.active
    /\ qres' = frame.result
    /\ frame' = NoFrame
    /\ nopen' = FrameExit(nopen)
    /\ UNCHANGED <<nmade, qname, conf, rundir, resolv, route, ctlvars, procvars>>

\* re.search('^0.0.0.0\s+(.*?)\s+(.*)\s+%s' % ifname, line): None, or
\* group(1).  With the line's tokens numbered from 1: token 1 is the
\* destination; a spaces follow (\s+, greedy); group 1 is the next b tokens
\* (lazy); a space follows it at q; somewhere at p >= q + 2, right after a
\* space, the tokens of ifname begin ((.*) takes whatever lies between).
RouteOk(line, ifname, a, b) ==
    LET n == Len(line)
        q == 2 + a + b
    IN /\ \A k \in 2..(1 + a) : IsSpace(line[k])
       /\ q <= n
       /\ IsSpace(line[q])
       /\ \E p \in (q + 2)..n :
            IsSpace(line[p - 1]) /\ startswith(SubSeq(line, p, n), ifname)

RouteMatch(line, ifname) ==
    LET n == Len(line)
        oks == {a \in 1..n : \E b \in 0..n : RouteOk(line, ifname, a, b)}
    IN IF n = 0 \/ line[1] # "0.0.0.0" \/ oks = {} THEN PyNone
       ELSE LET a == Max(oks)
                b == Min({b \in 0..n : RouteOk(line, ifname, a, b)})
            IN PyStr(SubSeq(line, 2 + a, 1 + a + b))

\* get_gateway: executil.ExecError gives None; else the first matching line.
get_gateway_of(rt, ifname) ==
    IF ~rt.ok THEN PyNone
    ELSE LET hits == {i \in 1..Len(rt.lines) : RouteMatch(rt.lines[i], ifname).kind = "str"}
         IN IF hits = {} THEN PyNone ELSE RouteMatch(rt.lines[Min(hits)], ifname)

get_gateway(ifname) ==
    /\ qname' = ifname
    /\ qres' = get_gateway_of(route, ifname)
    /\ UNCHANGED <<conf, rundir, resolv, route, nopen, nmade, frame, ctlvars, procvars>>

\* _parse_resolv(path): file(path) raises IOError when the path is missing;
\* the keyword is looked for in the raw line, its argument in the stripped one.
parse_resolv(f) ==
    IF ~f.exists THEN PyRaise("IOError")
    ELSE LET hits == {i \in 1..Len(f.lines) : startswith(f.lines[i], <<"nameserver">>)}
         IN IF hits = {} THEN PyNone
            ELSE LET words == split(strip(f.lines[Min(hits)]))
                 IN IF Len(words) < 2 THEN PyRaise("IndexError") ELSE PyStr(words[2])

\* The loop over os.listdir(path), in listing order.
RECURSIVE ScanRunDir(_, _)
ScanRunDir(files, ifname) ==
    IF files = <<>> THEN PyNone
    ELSE LET f == Head(files) IN
         IF ~startswith(f.name, ifname) \/ endswith(f.name, <<".inet">>)
         THEN ScanRunDir(Tail(files), ifname)
         ELSE LET nameserver == parse_resolv([exists |-> TRUE, lines |-> f.lines])
              IN IF nameserver.kind = "raise" \/ Truthy(nameserver) THEN nameserver
                 ELSE ScanRunDir(Tail(files), ifname)

\* The /etc/resolv.conf (fallback) part, lines 81-86.
Fallback(rs) ==
    LET nameserver == parse_resolv(rs)
    IN IF nameserver.kind = "raise" \/ Truthy(nameserver) THEN nameserver ELSE PyNone

\* The resolvconf (dhcp) part and what follows it, lines 70-86.
Dynamic(rd, rs, ifname) ==
    IF rd.exists
    THEN LET found == ScanRunDir(rd.files, ifname)
         IN IF found.kind = "None" THEN Fallback(rs) ELSE found
    ELSE Fallback(rs)

\* get_nameserver: interfaces.conf[self.ifname] raises KeyError when the
\* store has no entry for the interface.
get_nameserver_of(cf, rd, rs, ifname) ==
    IF ifname \notin DOMAIN cf THEN PyRaise("KeyError")
    ELSE LET lines == cf[ifname]
             hits == {i \in 1..Len(lines) : startswith(strip(lines[i]), <<"dns-nameservers">>)}
         IN IF hits = {} THEN Dynamic(rd, rs, ifname)
            ELSE LET words == split(strip(lines[Min(hits)]))
                 IN IF Len(words) < 2 THEN PyRaise("IndexError") ELSE PyStr(words[2])

get_nameserver(ifname) ==
    /\ qname' = ifname
    /\ qres' = get_nameserver_of(conf, rundir, resolv, ifname)
    /\ UNCHANGED <<conf, rundir, resolv, route, nopen, nmade, frame, ctlvars, procvars>>

-----------------------------------------------------------------------------
(* Connection and the /proc/net readers: src/ifutil.py 98-137, 206-228 *)

HexVal(c) ==
    CASE c = "0" -> 0 [] c = "1" -> 1 [] c = "2" -> 2 [] c = "3" -> 3
      [] c = "4" -> 4 [] c = "5" -> 5 [] c = "6" -> 6 [] c = "7" -> 7
      [] c = "8" -> 8 [] c = "9" -> 9
      [] c \in {"a", "A"} -> 10 [] c \in {"b", "B"} -> 11 [] c \in {"c", "C"} -> 12
      [] c \in {"d", "D"} -> 13 [] c \in {"e", "E"} -> 14 [] c \in {"f", "F"} -> 15
      [] OTHER -> -1

\* Whether int(s, 16) accepts s (no sign, prefix or blanks occur in a field).
IsHex(s) == s # <<>> /\ \A k \in 1..Len(s) : HexVal(s[k]) >= 0

\* int(s, 16) as an unbounded integer, kept as its hexadecimal digits, most
\* significant first: a tcp6 host has 32 of them.
int16(s) == [k \in 1..Len(s) |-> HexVal(s[k])]

\* (n >> shift) & 0xff, shift a multiple of 4.
Nibble(n, j) == IF j < Len(n) THEN n[Len(n) - j] ELSE 0
ShiftMask(n, shift) == Nibble(n, shift \div 4) + 16 * Nibble(n, (shift \div 4) + 1)

\* The value of n as a number, for the port (at most 4 digits in /proc/net).
RECURSIVE IntVal(_)
IntVal(n) == IF n = <<>> THEN 0 ELSE 16 * IntVal(SubSeq(n, 1, Len(n) - 1)) + n[Len(n)]

\* The octets taken most significant first.
int2hostBigEndian(host) ==
    join(".", <<str(ShiftMask(host, 24)), str(ShiftMask(host, 16)),
                str(ShiftMask(host, 8)), str(ShiftMask(host, 0))>>)

int2host(host) ==
    join(".", <<str(ShiftMask(host, 0)), str(ShiftMask(host, 8)),
                str(ShiftMask(host, 16)), str(ShiftMask(host, 24))>>)

\* _map_hostport: attrib.split(":", 1) must unpack into two parts and both
\* must be hexadecimal, else ValueError.
map_hostport(attrib) ==
    LET parts == splitOn(attrib, ":", 1) IN
    IF Len(parts) # 2 THEN [kind |-> "raise", exc |-> "ValueError", host |-> <<>>, port |-> 0]
    ELSE IF ~IsHex(parts[1]) \/ ~IsHex(parts[2])
         THEN [kind |-> "raise", exc |-> "ValueError", host |-> <<>>, port |-> 0]
         ELSE [kind |-> "ok", exc |-> "", host |-> int2host(int16(parts[1])),
               port |-> IntVal(int16(parts[2]))]

map_status(attrib) ==
    CASE attrib = <<"0", "1">> -> "ESTABLISHED"
      [] attrib = <<"0", "A">> -> "LISTENING"
      [] attrib = <<"1", "0">> -> "WAITING"
      [] OTHER -> "UNKNOWN"

Raised(exc) == [kind |-> "raise", exc |-> exc]

\* Connection.__init__(proto, attribs): attribs[1], attribs[2], attribs[3]
\* in Python's numbering are attribs[2..4] here.
Connection(proto, attribs) ==
    IF Len(attribs) < 2 THEN Raised("IndexError")
    ELSE LET l == map_hostport(attribs[2]) IN
    IF l.kind = "raise" THEN Raised(l.exc)
    ELSE IF Len(attribs) < 3 THEN Raised("IndexError")
    ELSE LET r == map_hostport(attribs[3]) IN
    IF r.kind = "raise" THEN Raised(r.exc)
    ELSE IF Len(attribs) < 4 THEN Raised("IndexError")
    ELSE [kind |-> "conn", proto |-> proto, lhost |-> l.host, lport |-> l.port,
          rhost |-> r.host, rport |-> r.port, status |-> map_status(attribs[4])]

\* A loop that passes over a row Connection() rejects.
RECURSIVE TableConnectionsSkips(_, _, _)
TableConnectionsSkips(proto, lines, connections) ==
    IF lines = <<>> THEN [kind |-> "list", val |-> connections]
    ELSE LET conn == Connection(proto, split(Head(lines))) IN
         TableConnectionsSkips(proto, Tail(lines),
             IF conn.kind = "raise" THEN connections ELSE Append(connections, conn))

\* The inner loop of get_connections over readlines()[1:].
RECURSIVE TableConnections(_, _, _)
TableConnections(proto, lines, connections) ==
    IF lines = <<>> THEN [kind |-> "list", val |-> connections]
    ELSE LET conn == Connection(proto, split(Head(lines))) IN
         IF conn.kind = "raise" THEN [kind |-> "raise", val |-> <<conn.exc>>]
         ELSE TableConnections(proto, Tail(lines), Append(connections, conn))

Protos == <<"tcp", "tcp6", "udp">>

\* readlines()[1:]
DropFirst(lines) == IF lines = <<>> THEN <<>> ELSE Tail(lines)

RECURSIVE ProtoConnections(_, _, _)
ProtoConnections(files, k, connections) ==
    IF k > Len(Protos) THEN [kind |-> "list", val |-> connections]
    ELSE LET t == TableConnections(Protos[k], DropFirst(files[k]), connections) IN
         IF t.kind = "raise" THEN t ELSE ProtoConnections(files, k + 1, t.val)

get_connections_of(files) == ProtoConnections(files, 1, <<>>)

get_connections ==
    /\ proc.kind = "net"
    /\ pres' = get_connections_of(proc.files)
    /\ UNCHANGED <<proc, ctlvars, qryvars>>

\* A loop that takes the first part of any line that has a colon.
RECURSIVE DevNamesAnyColon(_, _)
DevNamesAnyColon(lines, ifnames) ==
    IF lines = <<>> THEN ifnames
    ELSE LET parts == splitOn(strip(Head(lines)), ":", -1) IN
         IF Len(parts) >= 2 THEN DevNamesAnyColon(Tail(lines), Append(ifnames, parts[1]))
         ELSE DevNamesAnyColon(Tail(lines), ifnames)

\* ifname, junk = line.strip().split(":") raises ValueError, which is
\* passed over, unless there are exactly two parts.
RECURSIVE DevNames(_, _)
DevNames(lines, ifnames) ==
    IF lines = <<>> THEN ifnames
    ELSE LET parts == splitOn(strip(Head(lines)), ":", -1) IN
         IF Len(parts) = 2 THEN DevNames(Tail(lines), Append(ifnames, parts[1]))
         ELSE DevNames(Tail(lines), ifnames)

get_ifnames_of(lines) == DevNames(lines, <<>>)

get_ifnames ==
    /\ proc.kind = "dev"
    /\ pres' = [kind |-> "list", val |-> get_ifnames_of(proc.files[1])]
    /\ UNCHANGED <<proc, ctlvars, qryvars>>

\* One call of Connection._map_hostport on the field in proc.
call_map_hostport ==
    /\ proc.kind = "attrib"
    /\ pres' = map_hostport(proc.files[1])
    /\ UNCHANGED <<proc, ctlvars, qryvars>>

-----------------------------------------------------------------------------
(* The files and command output the queries read *)

IfaceLine == <<"iface", " ", "inet", " ", "static">>
DnsLine(a) == <<" ", " ", "dns-nameservers", " ", a>>

NsNames == {Eth0, Eth1}

\* Config text of one interface, as conffiles.Interfaces keeps it.
ConfEntries == {<<IfaceLine>>,
                <<IfaceLine, DnsLine("8.8.8.8") \o <<" ", "8.8.4.4">>>>,
                <<IfaceLine, DnsLine("1.0.0.1"), DnsLine("8.8.8.8")>>}

Confs == UNION {[D -> ConfEntries] : D \in SUBSET NsNames}

ResolvLines == {<<"nameserver", " ", "1.1.1.1">>,
                <<" ", "nameserver", " ", "7.7.7.7">>,
                <<"search", " ", "lan">>,
                <<"nameserver">>}

SeqsUpTo(S, n) == UNION {[1..k -> S] : k \in 0..n}

Missing == [exists |-> FALSE, lines |-> <<>>]
Resolvs == {Missing} \cup {[exists |-> TRUE, lines |-> l] : l \in SeqsUpTo(ResolvLines, MaxLines)}

\* Files resolvconf may keep in its run directory.
RunDirEntries ==
    {[name |-> Eth0 \o <<".dhclient">>, lines |-> <<<<"nameserver", " ", "2.2.2.2">>>>],
     [name |-> Eth0 \o <<".inet">>, lines |-> <<<<"nameserver", " ", "3.3.3.3">>>>],
     [name |-> Eth0 \o <<".ppp">>, lines |-> <<<<"nameserver", " ", "4.4.4.4">>>>],
     [name |-> Eth1 \o <<".dhclient">>, lines |-> <<<<"search", " ", "lan">>>>]}

\* os.listdir gives the entries in no particular order.
Listings(S) ==
    {l \in SeqsUpTo(S, Cardinality(S)) : \A i, j \in 1..Len(l) : i # j => l[i] # l[j]}

RunDirs == {[exists |-> FALSE, files |-> <<>>]}
           \cup {[exists |-> TRUE, files |-> l] : l \in Listings(RunDirEntries)}

RouteLine(dest, gw, mask, flags, iface) ==
    <<dest, " ", " ", gw, " ", " ", mask, " ", flags, " ", " ">> \o iface

RouteLines == {<<"Destination", " ", "Gateway", " ", "Genmask", " ", "Flags", " ", "Iface">>,
               RouteLine("0.0.0.0", "192.168.1.1", "0.0.0.0", "UG", Eth0),
               RouteLine("0.0.0.0", "172.16.0.1", "0.0.0.0", "UG", Eth1),
               RouteLine("0.0.0.0", "10.0.0.1", "0.0.0.0", "UG", Eth10),
               RouteLine("192.168.1.0", "0.0.0.0", "255.255.255.0", "U", Eth1)}

RouteFailed == [ok |-> FALSE, lines |-> <<>>]
Routes == {RouteFailed} \cup {[ok |-> TRUE, lines |-> l] : l \in SeqsUpTo(RouteLines, MaxLines)}

NoProc == [kind |-> "none", files |-> <<>>]
NoResult == [kind |-> "none", val |-> <<>>]

IdleQry ==
    /\ conf = [i \in NsNames |-> <<IfaceLine>>]
    /\ rundir = [exists |-> FALSE, files |-> <<>>]
    /\ resolv = Missing
    /\ route = RouteFailed
    /\ qname = Eth0
    /\ qres = NoResult
    /\ nopen = 0
    /\ nmade = 0
    /\ frame = NoFrame

IdleProc == proc = NoProc /\ pres = NoResult

-----------------------------------------------------------------------------
(* Specifications *)

NextCtl ==
    \/ \E i \in Ifnames : unconfigure_if(i)
    \/ \E i \in Ifnames, a \in Addrs : set_static(i, a)
    \/ \E i \in Ifnames : set_dhcp(i)

InitSpecCtl == InitCtl /\ IdleQry /\ IdleProc

SpecCtl == InitSpecCtl /\ [][NextCtl]_vars

InitNs ==
    /\ InitCtl /\ IdleProc
    /\ conf \in Confs
    /\ rundir \in RunDirs
    /\ resolv \in Resolvs
    /\ route = RouteFailed
    /\ qname = Eth0
    /\ qres = NoResult
    /\ nopen = 0 /\ nmade = 0 /\ frame = NoFrame

NextNs == \E i \in NsNames : get_nameserver(i)

SpecNs == InitNs /\ [][NextNs]_vars

InitGw ==
    /\ InitCtl /\ IdleProc
    /\ conf = [i \in NsNames |-> <<IfaceLine>>]
    /\ rundir = [exists |-> FALSE, files |-> <<>>]
    /\ resolv = Missing
    /\ route \in Routes
    /\ qname = Eth0
    /\ qres = NoResult
    /\ nopen = 0 /\ nmade = 0 /\ frame = NoFrame

NextGw == \E i \in QNames : get_gateway(i)

SpecGw == InitGw /\ [][NextGw]_vars

InitAddr == InitCtl /\ IdleQry /\ IdleProc

NextAddr ==
    \/ \E i \in QNames, a \in ATTRIBS : get_addr_call(i, a)
    \/ get_addr_return

SpecAddr == InitAddr /\ [][NextAddr]_vars

-----------------------------------------------------------------------------
(* The /proc/net files *)

H127 == <<"0", "1", "0", "0", "0", "0", "7", "F">>
HAny == <<"0", "0", "0", "0", "0", "0", "0", "0">>
H6 == HAny \o HAny \o <<"f", "f", "f", "f", "0", "0", "0", "0">> \o <<"0", "5", "0", "1", "a", "8", "C", "0">>
P80 == <<"0", "0", "5", "0">>
P0 == <<"0", "0", "0", "0">>
P8080 == <<"1", "f", "9", "0">>

ConnRow(sl, lhost, lport, rhost, rport, st) ==
    <<" ", " ", sl, ":", " ">> \o lhost \o <<":">> \o lport \o <<" ">>
        \o rhost \o <<":">> \o rport \o <<" ">> \o st

ConnHeader == <<" ", " ", "sl", " ", " ", "local_address", " ", "rem_address", " ", " ", "st">>
GoodRows == {ConnRow("0", H127, P80, HAny, P0, <<"0", "A">>),
             ConnRow("1", H6, P8080, H6, P80, <<"0", "1">>)}
BadRow == <<" ", " ", "2", ":", " ">> \o H127 \o <<" ">> \o HAny \o <<":">> \o P0
ConnRows == GoodRows \cup {BadRow}

ConnFiles == {<<>>, <<BadRow>>} \cup {<<ConnHeader>> \o rows : rows \in SeqsUpTo(ConnRows, MaxLines)}

DevLines == {<<"Inter-", "|", " ", " ", "Receive", " ", "|", " ", "Transmit">>,
             <<" ", "face", " ", "|", "bytes", " ", "packets", "|", "bytes">>,
             <<" ", " ", " ", " ", "lo", ":", " ", "1", "2", " ", "0">>,
             <<" ", " ", "eth", "0", ":", "1", "2", " ", "0">>,
             <<"eth", "1", ":">>,
             <<"eth", "0", ":", "1", ":", " ", "1", "2">>,
             <<>>}

\* Host fields: every 8-digit string over four digits, and every string
\* with one byte running over all digit pairs, in both cases of the letters.
HexChars == {"0", "7", "a", "F"}
AllHexChars == {"0", "1", "2", "3", "4", "5", "6", "7", "8", "9",
                "a", "b", "c", "d", "e", "f", "A", "B", "C", "D", "E", "F"}
Hosts == [1..8 -> HexChars]
         \cup {[k \in 1..8 |-> IF k = 2 * j - 1 THEN x ELSE IF k = 2 * j THEN y ELSE z] :
                  j \in 1..4, x \in AllHexChars, y \in AllHexChars, z \in {"0", "F"}}
Ports == {P80, P8080}

NextConn == get_connections

InitConn ==
    /\ InitCtl /\ IdleQry
    /\ proc \in [kind : {"net"}, files : [1..3 -> ConnFiles]]
    /\ pres = NoResult

SpecConn == InitConn /\ [][NextConn]_vars

NextDev == get_ifnames

InitDev ==
    /\ InitCtl /\ IdleQry
    /\ proc \in [kind : {"dev"}, files : {<<f>> : f \in SeqsUpTo(DevLines, MaxDevLines)}]
    /\ pres = NoResult

SpecDev == InitDev /\ [][NextDev]_vars

NextHost == call_map_hostport

InitHost ==
    /\ InitCtl /\ IdleQry
    /\ proc \in [kind : {"attrib"}, files : {<<h \o <<":">> \o p>> : h \in Hosts, p \in Ports}]
    /\ pres = NoResult

SpecHost == InitHost /\ [][NextHost]_vars

-----------------------------------------------------------------------------
(* Claims about the interface controller, under SpecCtl *)

Ran == lastop.name # "none"
AllSucceeded == \A k \in 1..Len(calls) : calls[k].ok

\* C1: each of unconfigure_if, set_static and set_dhcp never raises, returns
\* None or '' exactly when every step succeeded (for set_dhcp: and an address
\* was obtained), and a non-empty string whenever a step failed, whatever
\* message the failing step carries.
C1_ReturnTellsFailure ==
    Ran => /\ ret.kind \in {"None", "str"}
           /\ AllSucceeded <=> ~Truthy(ret)

\* The sequence of external actions each operation is to perform; the read
\* of the config file by conffiles.Interfaces() is not counted among them.
FixedSequence(name) ==
    CASE name = "unconfigure_if" -> <<"ifdown", "set_manual", "ifconfig", "ifup">>
      [] name = "set_static" -> <<"ifdown", "set_static", "ifup">>
      [] name = "set_dhcp" -> <<"ifdown", "set_dhcp", "ifup", "addr">>

IsWrite(c) == c.act \in {"set_manual", "set_static", "set_dhcp"}
Performed(cs) == SelectSeq(cs, LAMBDA c : c.act # "Interfaces")

C2_PrefixOfSequence ==
    Ran => LET done == Performed(calls)
               fixed == FixedSequence(lastop.name)
           IN /\ Len(done) <= Len(fixed)
              /\ \A k \in 1..Len(done) :
                   done[k].act = fixed[k] /\ done[k].ifname = lastop.ifname
              /\ \A k \in 1..(Len(calls) - 1) : calls[k].ok
              /\ calls # <<>>
              /\ calls[Len(calls)].ok => Len(done) = Len(fixed)

\* The store is written only by a config-store call that succeeded, which
\* only a successful ifdown can precede, and what it wrote is what the store
\* holds when the operation returns, whatever happened to ifup.
C2_StoreStep ==
    LET writes == {k \in 1..Len(calls') : IsWrite(calls'[k]) /\ calls'[k].ok}
        target == CASE lastop'.name = "unconfigure_if" -> "manual"
                    [] lastop'.name = "set_static" -> "static"
                    [] lastop'.name = "set_dhcp" -> "dhcp"
    IN /\ writes = {} => store' = store
       /\ writes # {} =>
            /\ calls'[1].act = "ifdown" /\ calls'[1].ok
            /\ store'[lastop'.ifname].method = target
            /\ \A i \in Ifnames \ {lastop'.ifname} : store'[i] = store[i]

\* C2: the external actions an operation performs are a prefix of its fixed
\* sequence ending at the first failing step: nothing runs after a failure,
\* nothing is repeated, nothing is undone; the store is not written unless
\* ifdown succeeded and a write is not reverted when ifup fails.
C2_AbortNoRollback == []C2_PrefixOfSequence /\ [][C2_StoreStep]_vars

\* set_static got as far as ifup, which failed, and the store keeps the
\* static configuration.
C2_Witness ==
    /\ lastop.name = "set_static"
    /\ Len(calls) = 4 /\ calls[4].act = "ifup" /\ ~calls[4].ok
    /\ store[lastop.ifname].method = "static"
    /\ Truthy(ret)

\* C3: when ifdown, the config-store set_dhcp and ifup all succeed, set_dhcp
\* returns a non-empty string containing ifup's output if the address query
\* finds no address, and None if it finds one.
C3_DhcpVerify ==
    (lastop.name = "set_dhcp" /\ Len(calls) = 5)
        => IF Truthy(netaddr) THEN ret = PyNone
           ELSE /\ Truthy(ret)
                /\ Contains(ret.val, output)
                /\ calls[4].act = "ifup" /\ calls[4].ok

C3_Witness ==
    /\ lastop.name = "set_dhcp" /\ Len(calls) = 5
    /\ ~Truthy(netaddr)
    /\ output # <<>>
    /\ Truthy(ret)

-----------------------------------------------------------------------------
(* Claims about the Netconf queries *)

\* C4 (under SpecNs): a read-only query never raises: whatever the config
\* store, the resolver directory and the resolver file hold or lack, it
\* returns a value or None.
C4_QueryNeverRaises == qres.kind # "raise"

\* The first argument of the first dns-nameservers line of the entry.
StaticOf(cf, ifname) ==
    IF ifname \notin DOMAIN cf THEN PyNone
    ELSE LET hits == {i \in 1..Len(cf[ifname]) :
                        \E k \in 1..Len(cf[ifname][i]) :
                            /\ cf[ifname][i][k] = "dns-nameservers"
                            /\ \A j \in 1..(k - 1) : IsSpace(cf[ifname][i][j])}
         IN IF hits = {} THEN PyNone
            ELSE LET words == split(cf[ifname][Min(hits)])
                 IN IF Len(words) >= 2 THEN PyStr(words[2]) ELSE PyNone

\* The first nameserver of a resolver file: the argument of its first line
\* that begins with the keyword; None if there is no file, line or argument.
FirstNameserver(f) ==
    LET hits == {i \in 1..Len(f.lines) :
                    f.lines[i] # <<>> /\ f.lines[i][1] = "nameserver"}
    IN IF ~f.exists \/ hits = {} THEN PyNone
       ELSE LET words == split(f.lines[Min(hits)])
            IN IF Len(words) >= 2 THEN PyStr(words[2]) ELSE PyNone

\* The dynamic files of an interface, in listing order, and the first
\* nameserver any of them gives.
DynamicOf(rd, ifname) ==
    LET mine == {i \in 1..Len(rd.files) :
                    /\ startswith(rd.files[i].name, ifname)
                    /\ ~endswith(rd.files[i].name, <<".inet">>)
                    /\ FirstNameserver([exists |-> TRUE, lines |-> rd.files[i].lines]) # PyNone}
    IN IF ~rd.exists \/ mine = {} THEN PyNone
       ELSE FirstNameserver([exists |-> TRUE, lines |-> rd.files[Min(mine)].lines])

FirstSource(cf, rd, rs, ifname) ==
    IF StaticOf(cf, ifname) # PyNone THEN StaticOf(cf, ifname)
    ELSE IF DynamicOf(rd, ifname) # PyNone THEN DynamicOf(rd, ifname)
    ELSE FirstNameserver(rs)

\* C5 (under SpecNs): get_nameserver returns the nameserver of the first of
\* static entry, dynamic files, fallback file that yields one; a static
\* entry wins over any resolver file; with no static entry and no dynamic
\* directory the result is the fallback file's first nameserver, or None.
C5_FirstSourceWins ==
    qres.kind # "none" =>
        /\ qres = FirstSource(conf, rundir, resolv, qname)
        /\ StaticOf(conf, qname) # PyNone => qres = StaticOf(conf, qname)
        /\ (StaticOf(conf, qname) = PyNone /\ ~rundir.exists)
               => qres = FirstNameserver(resolv)

\* The gateway field of the first line whose destination field is 0.0.0.0
\* and whose last field is the interface name.
DefaultRouteOf(rt, ifname) ==
    LET hits == {i \in 1..Len(rt.lines) :
                    LET f == split(rt.lines[i])
                    IN Len(f) >= 3 /\ f[1] = <<"0.0.0.0">> /\ f[Len(f)] = ifname}
    IN IF ~rt.ok \/ hits = {} THEN PyNone
       ELSE PyStr(split(rt.lines[Min(hits)])[2])

\* C6 (under SpecGw): get_gateway for N returns the gateway of the first
\* line with destination 0.0.0.0 and interface field equal to N, and None if
\* there is none; a default route of an interface whose name only extends N
\* gives nothing for N.
C6_GatewayOfExactInterface ==
    qres.kind # "none" => qres = DefaultRouteOf(route, qname)

-----------------------------------------------------------------------------
(* Claims about the /proc/net readers *)

HexDigits == <<"0", "1", "2", "3", "4", "5", "6", "7", "8", "9",
               "A", "B", "C", "D", "E", "F">>

\* An octet as two upper-case hexadecimal digits.
HexByte(n) == <<HexDigits[(n \div 16) + 1], HexDigits[(n % 16) + 1]>>

\* The number a string of decimal digits denotes.
DecVal(d) ==
    LET v(c) == CHOOSE n \in 0..9 : DigitChars[n + 1] = c
    IN IF Len(d) = 1 THEN v(d[1])
       ELSE IF Len(d) = 2 THEN 10 * v(d[1]) + v(d[2])
       ELSE 100 * v(d[1]) + 10 * v(d[2]) + v(d[3])

\* The octets of a dotted quad, left to right.
QuadOctets(host) ==
    LET parts == splitOn(host, ".", -1) IN [k \in 1..Len(parts) |-> DecVal(parts[k])]

\* The octets as a little-endian 8-digit encoding: the last octet first.
EncodeHost(o) == HexByte(o[4]) \o HexByte(o[3]) \o HexByte(o[2]) \o HexByte(o[1])

\* The canonical (upper-case) form of an encoding.
Canonical(h) == [k \in 1..Len(h) |-> HexDigits[HexVal(h[k]) + 1]]

\* C7 (under SpecHost): _map_hostport decodes an 8-digit host H into a
\* dotted quad whose k-th octet is bits 8k..8k+7 of H, re-encoding the quad
\* gives H back in canonical form, and the port is the value of the port
\* field.
C7_HostRoundTrip ==
    pres.kind # "none" =>
        LET h == SubSeq(proc.files[1], 1, 8)
            p == SubSeq(proc.files[1], 10, 13)
            o == QuadOctets(pres.host)
        IN /\ pres.kind = "ok"
           /\ Len(o) = 4
           /\ \A k \in 0..3 :
                o[k + 1] = 16 * HexVal(h[7 - 2 * k]) + HexVal(h[8 - 2 * k])
           /\ EncodeHost(o) = Canonical(h)
           /\ pres.port = 4096 * HexVal(p[1]) + 256 * HexVal(p[2])
                          + 16 * HexVal(p[3]) + HexVal(p[4])

\* 0a00007F:1f90 was decoded to 127.0.0.10, port 8080.
C7_Witness ==
    /\ pres.kind = "ok"
    /\ SubSeq(proc.files[1], 1, 8) = <<"0", "a", "0", "0", "0", "0", "7", "F">>
    /\ pres.host = <<"1", "2", "7", ".", "0", ".", "0", ".", "1", "0">>
    /\ pres.port = 8080

Colons(line) == Cardinality({k \in 1..Len(line) : line[k] = ":"})

\* The identifier of an interface row: what stands before its colon, the
\* leading blanks left out.
RowName(line) ==
    LET c == CHOOSE k \in 1..Len(line) : line[k] = ":"
        first == Min({k \in 1..c : ~IsSpace(line[k])})
    IN SubSeq(line, first, c - 1)

\* C9 (under SpecDev): get_ifnames returns, in file order, the identifier of
\* every line that is a colon-delimited interface row (exactly one colon),
\* one name per row, and passes over every other line.
C9_IfnamesInFileOrder ==
    pres.kind # "none" =>
        LET lines == proc.files[1]
            rows == {i \in 1..Len(lines) : Colons(lines[i]) = 1}
        IN /\ pres.kind = "list"
           /\ Len(pres.val) = Cardinality(rows)
           /\ \A i \in rows :
                pres.val[Cardinality({j \in rows : j <= i})] = RowName(lines[i])

\* A header line, the row of lo, and the row of eth0 gave <<lo, eth0>>.
C9_Witness ==
    /\ pres.kind = "list"
    /\ Len(proc.files[1]) = 3
    /\ Colons(proc.files[1][1]) = 0
    /\ pres.val = <<<<"lo">>, <<"eth", "0">>>>

\* What the two well-formed rows of ConnRows say.
RowRecord(proto, row) ==
    IF row = ConnRow("0", H127, P80, HAny, P0, <<"0", "A">>)
    THEN [kind |-> "conn", proto |-> proto,
          lhost |-> <<"1", "2", "7", ".", "0", ".", "0", ".", "1">>, lport |-> 80,
          rhost |-> <<"0", ".", "0", ".", "0", ".", "0">>, rport |-> 0,
          status |-> "LISTENING"]
    ELSE [kind |-> "conn", proto |-> proto,
          lhost |-> <<"1", "9", "2", ".", "1", "6", "8", ".", "1", ".", "5">>, lport |-> 8080,
          rhost |-> <<"1", "9", "2", ".", "1", "6", "8", ".", "1", ".", "5">>, rport |-> 80,
          status |-> "ESTABLISHED"]

DataLines(k) == IF proc.files[k] = <<>> THEN <<>> ELSE Tail(proc.files[k])

\* C10 (under SpecConn): on well-formed tables get_connections returns the
\* records of tcp, then tcp6, then udp, one per non-header line, in line
\* order, each tagged with its table's protocol; one malformed row in any
\* table makes the whole enumeration fail.
C10_ConnectionsInTableOrder ==
    pres.kind # "none" =>
        LET wellformed == \A k \in 1..3 : \A j \in 1..Len(DataLines(k)) :
                              DataLines(k)[j] \in GoodRows
            expected == [k \in 1..3 |->
                            [j \in 1..Len(DataLines(k)) |->
                                RowRecord(Protos[k], DataLines(k)[j])]]
        IN IF wellformed
           THEN /\ pres.kind = "list"
                /\ pres.val = expected[1] \o expected[2] \o expected[3]
                /\ Len(pres.val) = Len(DataLines(1)) + Len(DataLines(2)) + Len(DataLines(3))
           ELSE pres.kind = "raise"

\* Every table gave records.
C10_Witness ==
    /\ pres.kind = "list"
    /\ Len(pres.val) >= 4
    /\ \A k \in 1..3 : \E j \in 1..Len(pres.val) : pres.val[j].proto = Protos[k]

====
